---------------------------- MODULE Spec2Model ----------------------------
(***************************************************************************)
(* A model of FaceRecognitionSystem (src/src/face_system.py): the          *)
(* per-person embedding store with its JSON persistence, the linear-scan   *)
(* matcher, and the per-day attendance ledger.                             *)
(*                                                                         *)
(* Numbers.  Scores that are floats in the code are exact rationals here:  *)
(*   quality_score, det_score, threshold : hundredths (50 is 0.50)         *)
(*   embedding : an integer vector of squared length NormSq, so that the   *)
(*               cosine similarity of two of them is Dot(a, b) / NormSq    *)
(*   weighted similarity : Dot * (700 + 3 * quality), i.e. units of        *)
(*               1 / (NormSq * 1000)                                       *)
(*   person score, confidence : 6 * the mean of the top 3 weighted         *)
(*               similarities (6 is divisible by 1, 2 and 3), i.e. units   *)
(*               of 1 / (NormSq * 6000)                                    *)
(***************************************************************************)
EXTENDS Integers, Sequences, FiniteSets, Bags, TLC

VARIABLES
    embeddings_db,      \* self.embeddings_db: insertion-ordered dict, a sequence of [name, embs]
    embeddings_file,    \* data/processed/face_embeddings.json: [exists, parses, data], data the JSON document
    attendance_file,    \* data/processed/attendance.csv: the sequence of rows, header first
    daily_attendance,   \* self.daily_attendance: date -> set of names
    today,              \* date.today()
    enrolled,           \* history: name -> bag of the records stored for it since it was last absent
    faiss,              \* the FAISSMatcher (src/src/models/faiss_matcher.py) and its two files
    recognizer,         \* the FaceRecognizer (src/src/models/recognition.py)
    workers,            \* two workers inside log_attendance, with the sets they hold
    last                \* the last call made and what it returned

vars == <<embeddings_db, embeddings_file, attendance_file, daily_attendance,
          today, enrolled, faiss, recognizer, workers, last>>

---------------------------------------------------------------------------
(* Bounds and program constants *)

MaxDay == 2
max_embeddings_per_person == 2
min_embedding_quality == 20

Names == {"Alice", "Bob"}
None == "None"
NoFile == [exists |-> FALSE, parses |-> TRUE, data |-> <<>>]
Thresholds == {0, 50, 100}

\* the squared length of every embedding of the model (a unit vector in the code)
NormSq == 5 * 5

Face(e, q, d) == [embedding |-> e, quality_score |-> q, det_score |-> d]

\* The images offered to the system, by what detection and extraction yields for each.
Images == {"none", "low", "A", "B"}

detect_and_extract(image) ==
    CASE image = "none" -> <<>>
      [] image = "low"  -> << Face(<<0, 5>>, 19, 60) >>
      [] image = "A"    -> << Face(<<5, 0>>, 20, 60) >>
      [] image = "B"    -> << Face(<<0, 5>>, 19, 60),
                              Face(<<4, 3>>, 90, 90),
                              Face(<<0 - 5, 0>>, 50, 80) >>

---------------------------------------------------------------------------
(* The insertion-ordered dict embeddings_db *)

Range(s) == {s[i] : i \in DOMAIN s}

Keys(db) == {db[i].name : i \in DOMAIN db}

Has(db, name) == name \in Keys(db)

IndexOf(db, name) == CHOOSE i \in DOMAIN db : db[i].name = name

Get(db, name) == IF Has(db, name) THEN db[IndexOf(db, name)].embs ELSE <<>>

\* db[name] = embs: a new key goes to the end, an existing key keeps its place
Put(db, name, embs) ==
    IF Has(db, name)
    THEN [db EXCEPT ![IndexOf(db, name)].embs = embs]
    ELSE Append(db, [name |-> name, embs |-> embs])

\* a bug: the whole dict is emptied
Del_All(db, name) == <<>>

\* del db[name]
Del(db, name) == SelectSeq(db, LAMBDA p : p.name # name)

get_enrolled_count(db) ==
    LET RECURSIVE Sum(_)
        Sum(i) == IF i = 0 THEN 0 ELSE Len(db[i].embs) + Sum(i - 1)
    IN Sum(Len(db))

---------------------------------------------------------------------------
(* Enrollment: ranking, sorting, truncation *)

Product(r) == r.quality_score * r.det_score

\* a bug: no face is discarded for its quality
quality_faces_All(faces) == faces

quality_faces(faces) ==
    SelectSeq(faces, LAMBDA f : f.quality_score >= min_embedding_quality)

\* a bug: the last candidate is taken, whatever its key
best_face_Last(faces) == faces[Len(faces)]

\* max(seq, key=Product): the first element with the largest key
best_face(faces) ==
    LET i == CHOOSE k \in DOMAIN faces :
                 /\ \A j \in DOMAIN faces : Product(faces[j]) <= Product(faces[k])
                 /\ \A j \in 1..(k - 1) : Product(faces[j]) < Product(faces[k])
    IN faces[i]

\* a bug: the list is sorted the wrong way round
RECURSIVE SortDesc_Ascending(_)
SortDesc_Ascending(s) ==
    IF s = <<>> THEN <<>>
    ELSE LET x    == s[Len(s)]
             rest == SortDesc_Ascending(SubSeq(s, 1, Len(s) - 1))
             n    == Cardinality({i \in DOMAIN rest : Product(rest[i]) <= Product(x)})
         IN SubSeq(rest, 1, n) \o <<x>> \o SubSeq(rest, n + 1, Len(rest))

\* a bug: the list is cut without being sorted
SortDesc_None(s) == s

\* list.sort(key=Product, reverse=True): stable, equal keys keep their order
RECURSIVE SortDesc(_)
SortDesc(s) ==
    IF s = <<>> THEN <<>>
    ELSE LET x    == s[Len(s)]
             rest == SortDesc(SubSeq(s, 1, Len(s) - 1))
             n    == Cardinality({i \in DOMAIN rest : Product(rest[i]) >= Product(x)})
         IN SubSeq(rest, 1, n) \o <<x>> \o SubSeq(rest, n + 1, Len(rest))

\* a bug: the list is never cut
Truncate_None(s) == s

\* list[:max_embeddings_per_person]
Truncate(s) ==
    IF Len(s) <= max_embeddings_per_person THEN s
    ELSE SubSeq(s, 1, max_embeddings_per_person)

---------------------------------------------------------------------------
(* Persistence of the store *)

\* save_embeddings: one JSON object per record, under the person's name
Encode(db) ==
    [i \in DOMAIN db |->
        [name  |-> db[i].name,
         items |-> [j \in DOMAIN db[i].embs |->
                       [kind          |-> "dict",
                        embedding     |-> db[i].embs[j].embedding,
                        quality_score |-> db[i].embs[j].quality_score,
                        det_score     |-> db[i].embs[j].det_score]]]]

\* json.dump(data, f) into the file opened with 'w'
save_embeddings(db) == [exists |-> TRUE, parses |-> TRUE, data |-> Encode(db)]

\* a reader that ignores the stored scores
DecodeItem_Defaults(it) == Face(it.embedding, 50, 50)

\* one item of the file: the new format carries its scores, the old one is a bare array
DecodeItem(it) ==
    IF it.kind = "dict"
    THEN Face(it.embedding, it.quality_score, it.det_score)
    ELSE Face(it.embedding, 50, 50)

\* the items of one person that are read before one raises (kind "bad": an object
\* without its 'embedding' key, a KeyError at line 270)
GoodPrefix(items) ==
    LET bad == {j \in DOMAIN items : items[j].kind = "bad"}
    IN IF bad = {} THEN items
       ELSE SubSeq(items, 1, (CHOOSE j \in bad : \A k \in bad : j <= k) - 1)

\* the loop over data.items(): the person's list is created, then filled item by
\* item; an item that raises ends the whole load, with what was stored so far kept
RECURSIVE DecodeInto(_, _, _)
DecodeInto(db, data, i) ==
    IF i > Len(data) THEN db
    ELSE LET read == GoodPrefix(data[i].items)
             db1  == Put(db, data[i].name, [j \in DOMAIN read |-> DecodeItem(read[j])])
         IN IF Len(read) < Len(data[i].items) THEN db1
            ELSE DecodeInto(db1, data, i + 1)

\* load_embeddings into the empty dict of a new instance; json.load raises on a file
\* that is no JSON document before anything is stored
load_embeddings(file) ==
    IF ~file.exists THEN <<>>
    ELSE IF ~file.parses THEN <<>>
    ELSE DecodeInto(<<>>, file.data, 1)

---------------------------------------------------------------------------
(* Attendance ledger *)

Header == [Date |-> "Date", Name |-> "Name", Status |-> "Status"]

Row(d, name) == [Date |-> d, Name |-> name, Status |-> "Present"]

\* a bug: the scan of the ledger finds nothing
TodayNames_NoScan(file, d) == {}

\* _load_today_attendance: skip the header, collect the names of today's rows
TodayNames(file, d) ==
    {file[i].Name : i \in {k \in 2..Len(file) : file[k].Date = d}}

load_today_attendance(file, d) == [x \in {d} |-> TodayNames(file, d)]

\* log_attendance, lines 351-353: today's set is created empty when it is missing
WithToday(da, d) ==
    IF d \in DOMAIN da THEN da ELSE [x \in (DOMAIN da) \cup {d} |-> IF x = d THEN {} ELSE da[x]]

AlreadyRecorded(da, d, name) == name \in WithToday(da, d)[d]

AppendRow(file, d, name) == Append(file, Row(d, name))

\* a bug: the name is not remembered after the row is written
AddName_Forget(da, d, name) ==
    IF d \in DOMAIN da THEN da ELSE [x \in (DOMAIN da) \cup {d} |-> IF x = d THEN {} ELSE da[x]]

AddName(da, d, name) == [WithToday(da, d) EXCEPT ![d] = @ \cup {name}]

\* a bug: the names of every day held in memory
get_today_attendance_AnyDay(da, d) == UNION {da[x] : x \in DOMAIN da}

\* get_today_attendance: self.daily_attendance.get(today, set())
get_today_attendance(da, d) == IF d \in DOMAIN da THEN da[d] ELSE {}

---------------------------------------------------------------------------
(* The operations of FaceRecognitionSystem, as functions of the state *)

Outcome(ret, db, file) == [ret |-> ret, db |-> db, file |-> file]

\* the record enroll_person stores for an image that has a usable face
embedding_data(image) ==
    LET best == best_face(quality_faces(detect_and_extract(image)))
    IN Face(best.embedding, best.quality_score, best.det_score)

enroll_person(db, file, name, image) ==
    LET faces == detect_and_extract(image)
    IN IF faces = <<>> THEN Outcome(FALSE, db, file)
       ELSE IF quality_faces(faces) = <<>> THEN Outcome(FALSE, db, file)
       ELSE LET db1 == IF Has(db, name) THEN db ELSE Put(db, name, <<>>)
                db2 == Put(db1, name,
                           Truncate(SortDesc(Append(Get(db1, name), embedding_data(image)))))
            IN Outcome(TRUE, db2, save_embeddings(db2))

\* a bug: the file is rewritten also when nothing was deleted
delete_person_AlwaysSave(db, file, name) ==
    IF Has(db, name)
    THEN Outcome(TRUE, Del(db, name), save_embeddings(Del(db, name)))
    ELSE Outcome(FALSE, db, save_embeddings(db))

delete_person(db, file, name) ==
    IF Has(db, name)
    THEN Outcome(TRUE, Del(db, name), save_embeddings(Del(db, name)))
    ELSE Outcome(FALSE, db, file)

\* a bug: the store is emptied in memory only
clear_all_data_NoSave(db, file) == Outcome(TRUE, <<>>, file)

clear_all_data(db, file) == Outcome(TRUE, <<>>, save_embeddings(<<>>))

---------------------------------------------------------------------------
(* Recognition: linear scan over the store *)

Dot(a, b) == a[1] * b[1] + a[2] * b[2]

\* similarity * (0.7 + 0.3 * quality_score)
weighted_similarity(query, emb_data) ==
    Dot(query, emb_data.embedding) * (700 + 3 * emb_data.quality_score)

MaxOf(s) == CHOOSE x \in Range(s) : \A y \in Range(s) : y <= x

RemoveAt(s, i) == SubSeq(s, 1, i - 1) \o SubSeq(s, i + 1, Len(s))

\* sum of sorted(s, reverse=True)[:k]
RECURSIVE TopSum(_, _)
TopSum(s, k) ==
    IF k = 0 \/ s = <<>> THEN 0
    ELSE LET i == CHOOSE j \in DOMAIN s : s[j] = MaxOf(s)
         IN s[i] + TopSum(RemoveAt(s, i), k - 1)

Min(a, b) == IF a <= b THEN a ELSE b

\* a bug: the mean is taken over all the similarities of the person
avg_similarity_All(query, stored_embeddings) ==
    LET similarities == [j \in DOMAIN stored_embeddings |->
                            weighted_similarity(query, stored_embeddings[j])]
    IN (TopSum(similarities, Len(similarities)) * 6) \div Len(similarities)

\* 6 * np.mean(sorted(similarities, reverse=True)[:3])
avg_similarity(query, stored_embeddings) ==
    LET similarities == [j \in DOMAIN stored_embeddings |->
                            weighted_similarity(query, stored_embeddings[j])]
        k == Min(3, Len(similarities))
    IN (TopSum(similarities, k) * 6) \div k

\* a bug: every person with embeddings replaces the best, whatever the score
RECURSIVE BestFrom_Last(_, _, _, _)
BestFrom_Last(db, query, i, best) ==
    IF i > Len(db) THEN best
    ELSE IF db[i].embs # <<>>
         THEN BestFrom_Last(db, query, i + 1,
                            [match |-> db[i].name,
                             similarity |-> avg_similarity(query, db[i].embs)])
         ELSE BestFrom_Last(db, query, i + 1, best)

\* the loop over embeddings_db.items(): a later person replaces the best only when strictly higher
RECURSIVE BestFrom(_, _, _, _)
BestFrom(db, query, i, best) ==
    IF i > Len(db) THEN best
    ELSE IF db[i].embs # <<>> /\ avg_similarity(query, db[i].embs) > best.similarity
         THEN BestFrom(db, query, i + 1,
                       [match |-> db[i].name,
                        similarity |-> avg_similarity(query, db[i].embs)])
         ELSE BestFrom(db, query, i + 1, best)

best_of(db, query) == BestFrom(db, query, 1, [match |-> None, similarity |-> 0])

\* a threshold that falls as the quality of the query face rises
quality_adjusted_threshold_Falling(threshold, quality) == threshold * (1000 - 2 * quality)

\* threshold * (0.8 + 0.2 * quality_score), in thousandths of a hundredth
quality_adjusted_threshold(threshold, quality) == threshold * (800 + 2 * quality)

\* best_similarity >= quality_adjusted_threshold, cleared of denominators
is_match(best_similarity, threshold, quality) ==
    best_similarity * 50 >= 3 * NormSq * quality_adjusted_threshold(threshold, quality)

recognize_one(db, face_data, threshold) ==
    LET best == best_of(db, face_data.embedding)
        m    == is_match(best.similarity, threshold, face_data.quality_score)
    IN [matched    |-> m,
        name       |-> IF m THEN best.match ELSE None,
        confidence |-> best.similarity]

recognize_face(db, image, threshold) ==
    LET faces == detect_and_extract(image)
    IN [i \in DOMAIN faces |-> recognize_one(db, faces[i], threshold)]

---------------------------------------------------------------------------
(* log_attendance *)

LogOutcome(ret, da, file) == [ret |-> ret, da |-> da, file |-> file]

log_attendance(da, file, d, name) ==
    IF AlreadyRecorded(da, d, name)
    THEN LogOutcome(FALSE, WithToday(da, d), file)
    ELSE LogOutcome(TRUE, AddName(da, d, name), AppendRow(file, d, name))

---------------------------------------------------------------------------
(* FAISSMatcher (src/src/models/faiss_matcher.py), with the default IndexFlatIP.  *)
(* The matcher is one record: index (the rows, in order), student_ids, metadata   *)
(* (student id -> metadata), the two files, the last call made on it, and two     *)
(* history fields: added (the row stored by add_student for each entry of         *)
(* student_ids) and saved_added (the same for the entries in the metadata file).  *)

MaxStudents == 2
similarity_threshold == 65

StudentIds == {"s1", "s2"}
EmptyMeta == "{}"
\* add_student is called without metadata; the metadata of a file found at start is not empty
Metas == {None}

\* the shape every embedding must have (512 in the code, 2 in the model)
EmbeddingDim == 2
BadShape == <<5>>
AddEmbeddings == {<<5, 0>>, <<8, 6>>, BadShape}
QueryEmbeddings == {<<5, 0>>, <<8, 6>>, <<3, 4>>}
SearchSizes == {1, 2}

\* embedding / np.linalg.norm(embedding), to the model's common length
Normalize(v) ==
    LET f == CHOOSE g \in 1..3 : g * g * NormSq = Dot(v, v)
    IN <<v[1] \div f, v[2] \div f>>

NoIndexFile == [exists |-> FALSE, rows |-> <<>>]
NoMetadataFile == [exists |-> FALSE, student_ids |-> <<>>, metadata |-> <<>>]

FaissCall(op, id, query, k, ret, res) ==
    [op |-> op, student_id |-> id, query |-> query, k |-> k, ret |-> ret, results |-> res]

\* __init__ up to _init_index: nothing in memory, the files as they are
FaissNew(index_file, metadata_file, saved_added) ==
    [index |-> <<>>, student_ids |-> <<>>, metadata |-> <<>>,
     index_file |-> index_file, metadata_file |-> metadata_file,
     added |-> <<>>, saved_added |-> saved_added,
     call |-> FaissCall("init", None, <<>>, 0, FALSE, <<>>)]

FaissOutcome(ret, m) == [ret |-> ret, m |-> m]

\* d[k] = v
Assign(d, k, v) == [x \in (DOMAIN d) \cup {k} |-> IF x = k THEN v ELSE d[x]]

add_student(m, student_id, embedding, metadata) ==
    IF Len(embedding) # EmbeddingDim THEN FaissOutcome(FALSE, m)
    ELSE FaissOutcome(TRUE,
            [m EXCEPT !.index = Append(@, Normalize(embedding)),
                      !.student_ids = Append(@, student_id),
                      !.metadata = Assign(@, student_id,
                                          IF metadata = None THEN EmptyMeta ELSE metadata),
                      !.added = Append(@, Normalize(embedding))])

NoStudentMatch == [student_id |-> None, confidence |-> 0, is_match |-> FALSE]

\* index.search: the rows by decreasing inner product, the lower row first among equals
Ranked(index, query) ==
    LET Before(a, b) == \/ Dot(query, index[a]) > Dot(query, index[b])
                        \/ Dot(query, index[a]) = Dot(query, index[b]) /\ a < b
    IN [i \in DOMAIN index |->
           CHOOSE r \in DOMAIN index :
               Cardinality({x \in DOMAIN index : Before(x, r)}) = i - 1]

\* similarity >= self.similarity_threshold, for a similarity in units of 1 / NormSq
AboveThreshold(similarity) == similarity * 100 >= similarity_threshold * NormSq

\* a bug: the row's student is reported whether or not the threshold is reached
search_slot_AlwaysId(m, query, i) ==
    IF i > Len(m.index) THEN NoStudentMatch
    ELSE LET row        == Ranked(m.index, query)[i]
             similarity == Dot(query, m.index[row])
         IN IF row <= Len(m.student_ids)
            THEN [student_id |-> m.student_ids[row],
                  confidence |-> similarity,
                  is_match   |-> AboveThreshold(similarity)]
            ELSE NoStudentMatch

search_slot(m, query, i) ==
    IF i > Len(m.index) THEN NoStudentMatch
    ELSE LET row        == Ranked(m.index, query)[i]
             similarity == Dot(query, m.index[row])
         IN IF row <= Len(m.student_ids)
            THEN [student_id |-> IF AboveThreshold(similarity)
                                 THEN m.student_ids[row] ELSE None,
                  confidence |-> similarity,
                  is_match   |-> AboveThreshold(similarity)]
            ELSE NoStudentMatch

search(m, query_embedding, k) ==
    IF Len(m.index) = 0 THEN <<NoStudentMatch>>
    ELSE [i \in 1..k |-> search_slot(m, Normalize(query_embedding), i)]

\* the entries of a sequence at the positions where student_ids is not student_id
Surviving(m, seq, student_id) ==
    LET RECURSIVE Keep(_)
        Keep(i) == IF i = 0 THEN <<>>
                   ELSE IF m.student_ids[i] # student_id /\ i <= Len(seq)
                        THEN Append(Keep(i - 1), seq[i])
                        ELSE Keep(i - 1)
    IN Keep(Len(m.student_ids))

remove_student(m, student_id) ==
    IF student_id \notin Range(m.student_ids) THEN FaissOutcome(FALSE, m)
    ELSE LET remaining_ids == Surviving(m, m.student_ids, student_id)
         IN FaissOutcome(TRUE,
               [m EXCEPT !.index = <<>>,
                         !.student_ids = remaining_ids,
                         !.metadata = [sid \in Range(remaining_ids) |->
                                          IF sid \in DOMAIN m.metadata
                                          THEN m.metadata[sid] ELSE EmptyMeta],
                         !.added = Surviving(m, m.added, student_id)])

save_index(m) ==
    FaissOutcome(TRUE,
        [m EXCEPT !.index_file = [exists |-> TRUE, rows |-> m.index],
                  !.metadata_file = [exists |-> TRUE, student_ids |-> m.student_ids,
                                     metadata |-> m.metadata],
                  !.saved_added = m.added])

\* a bug: the files are read as soon as one of them is there; reading the metadata
\* sets student_ids and metadata before the missing index file raises
load_index_Either(m) ==
    IF ~m.index_file.exists /\ ~m.metadata_file.exists THEN FaissOutcome(FALSE, m)
    ELSE IF ~m.metadata_file.exists THEN FaissOutcome(FALSE, m)
    ELSE LET m1 == [m EXCEPT !.student_ids = m.metadata_file.student_ids,
                             !.metadata = m.metadata_file.metadata,
                             !.added = m.saved_added]
         IN IF ~m.index_file.exists THEN FaissOutcome(FALSE, m1)
            ELSE FaissOutcome(TRUE, [m1 EXCEPT !.index = m.index_file.rows])

\* _load_index on a matcher that _init_index has just emptied
load_index(m) ==
    IF ~m.index_file.exists \/ ~m.metadata_file.exists THEN FaissOutcome(FALSE, m)
    ELSE FaissOutcome(TRUE,
            [m EXCEPT !.student_ids = m.metadata_file.student_ids,
                      !.metadata = m.metadata_file.metadata,
                      !.index = m.index_file.rows,
                      !.added = m.saved_added])

clear_index(m) ==
    FaissOutcome(TRUE,
        [m EXCEPT !.index = <<>>, !.student_ids = <<>>, !.metadata = <<>>,
                  !.index_file = NoIndexFile, !.metadata_file = NoMetadataFile,
                  !.added = <<>>, !.saved_added = <<>>])

\* FAISSMatcher(): _init_index, then _load_index
FaissStart(index_file, metadata_file, saved_added) ==
    load_index(FaissNew(index_file, metadata_file, saved_added)).m

---------------------------------------------------------------------------
(* FaceRecognizer (src/src/models/recognition.py): enrolled_embeddings is a dict *)
(* student id -> embedding, kept as a sequence of [name, embs] in insertion      *)
(* order; since_clear is history, the ids enrolled since the last clear.         *)

RecognizerNew == [enrolled_embeddings |-> <<>>, since_clear |-> {}]

\* EmbeddingExtractor.extract: the embedding of the first face found, or None
extract(face_image) ==
    IF detect_and_extract(face_image) = <<>> THEN None
    ELSE detect_and_extract(face_image)[1].embedding

\* a bug: every enroll adds an entry, also for an id that is already there
recognizer_enroll_Append(r, student_id, face_image) ==
    IF extract(face_image) = None THEN [ret |-> FALSE, r |-> r]
    ELSE [ret |-> TRUE,
          r   |-> [enrolled_embeddings |->
                       Append(r.enrolled_embeddings,
                              [name |-> student_id, embs |-> extract(face_image)]),
                   since_clear |-> r.since_clear \cup {student_id}]]

recognizer_enroll(r, student_id, face_image) ==
    IF extract(face_image) = None THEN [ret |-> FALSE, r |-> r]
    ELSE [ret |-> TRUE,
          r   |-> [enrolled_embeddings |->
                       Put(r.enrolled_embeddings, student_id, extract(face_image)),
                   since_clear |-> r.since_clear \cup {student_id}]]

clear_enrollments(r) == [enrolled_embeddings |-> <<>>, since_clear |-> {}]

recognizer_enrolled_count(r) == Len(r.enrolled_embeddings)

\* the loop of recognize: a later student replaces the best only when strictly higher
RECURSIVE RecognizerBest(_, _, _, _)
RecognizerBest(entries, embedding, i, best) ==
    IF i > Len(entries) THEN best
    ELSE IF Dot(embedding, entries[i].embs) > best.similarity
         THEN RecognizerBest(entries, embedding, i + 1,
                             [id |-> entries[i].name,
                              similarity |-> Dot(embedding, entries[i].embs)])
         ELSE RecognizerBest(entries, embedding, i + 1, best)

recognizer_recognize(r, face_image) ==
    IF extract(face_image) = None THEN NoStudentMatch
    ELSE LET best == RecognizerBest(r.enrolled_embeddings, extract(face_image), 1,
                                    [id |-> None, similarity |-> 0])
         IN [student_id |-> IF AboveThreshold(best.similarity) THEN best.id ELSE None,
             confidence |-> best.similarity,
             is_match   |-> AboveThreshold(best.similarity)]

---------------------------------------------------------------------------
(* log_attendance in two steps, for two workers: the membership test (lines      *)
(* 351-357) and the append with the update of the set (359-373).  The workers    *)
(* are threads of one process, on one set, or processes with a set each.         *)

Workers == {1, 2}

WorkersStart(shared, file, d) ==
    [shared           |-> shared,
     daily_attendance |-> [w \in Workers |-> load_today_attendance(file, d)],
     pc               |-> [w \in Workers |-> "idle"],
     name             |-> [w \in Workers |-> None],
     returned_true    |-> <<>>]

\* the set a worker reads and writes
SetOf(ws, w) == IF ws.shared THEN 1 ELSE w

\* a different append: the ledger is read again before the row is written
log_append_Recheck(da, file, d, name) ==
    IF \E i \in 2..Len(file) : file[i].Date = d /\ file[i].Name = name
    THEN LogOutcome(FALSE, da, file)
    ELSE LogOutcome(TRUE, AddName(da, d, name), AppendRow(file, d, name))

\* lines 359-373: append the row, add the name, return True
log_append(da, file, d, name) ==
    LogOutcome(TRUE, AddName(da, d, name), AppendRow(file, d, name))

---------------------------------------------------------------------------
(* The state after construction *)

LegacyFile ==
    [exists |-> TRUE, parses |-> TRUE,
     data   |-> << [name |-> "Alice", items |-> << [kind |-> "bare", embedding |-> <<3, 4>>] >>] >>]

InitEmbeddingFiles == {NoFile, LegacyFile}

InitAttendanceFiles == { <<Header>>, <<Header, Row(1, "Alice")>> }

BagOfSeq(s) ==
    [x \in Range(s) |-> Cardinality({i \in DOMAIN s : s[i] = x})]

Call(op, name, image, thr, ret, res, prev) ==
    [op |-> op, name |-> name, image |-> image, threshold |-> thr,
     ret |-> ret, results |-> res, prev |-> prev]

Init ==
    /\ embeddings_file \in InitEmbeddingFiles
    /\ attendance_file \in InitAttendanceFiles
    /\ today = 1
    /\ daily_attendance = load_today_attendance(attendance_file, today)
    /\ embeddings_db = load_embeddings(embeddings_file)
    /\ enrolled = [n \in Names |-> BagOfSeq(Get(embeddings_db, n))]
    /\ faiss = FaissStart(NoIndexFile, NoMetadataFile, <<>>)
    /\ recognizer = RecognizerNew
    /\ workers = WorkersStart(FALSE, attendance_file, today)
    /\ last = Call("init", None, None, 0, TRUE, <<>>, <<>>)

---------------------------------------------------------------------------
(* Actions *)

StoreVars == <<embeddings_db, embeddings_file, enrolled>>
LedgerVars == <<attendance_file, daily_attendance, today>>

\* enrollments of one person are followed up to one past the cap
MaxEnrolled == max_embeddings_per_person + 1

Enroll(name, image) ==
    LET out == enroll_person(embeddings_db, embeddings_file, name, image)
    IN /\ out.ret => BagCardinality(enrolled[name]) < MaxEnrolled
       /\ embeddings_db' = out.db
       /\ embeddings_file' = out.file
       /\ enrolled' = IF out.ret
                      THEN [enrolled EXCEPT ![name] = @ (+) SetToBag({embedding_data(image)})]
                      ELSE enrolled
       /\ last' = Call("enroll", name, image, 0, out.ret, <<>>, <<>>)
       /\ UNCHANGED <<LedgerVars, faiss, recognizer, workers>>

Delete(name) ==
    LET out == delete_person(embeddings_db, embeddings_file, name)
    IN /\ embeddings_db' = out.db
       /\ embeddings_file' = out.file
       /\ enrolled' = [enrolled EXCEPT ![name] = EmptyBag]
       /\ last' = Call("delete", name, None, 0, out.ret, <<>>, <<>>)
       /\ UNCHANGED <<LedgerVars, faiss, recognizer, workers>>

Clear ==
    LET out == clear_all_data(embeddings_db, embeddings_file)
    IN /\ embeddings_db' = out.db
       /\ embeddings_file' = out.file
       /\ enrolled' = [n \in Names |-> EmptyBag]
       /\ last' = Call("clear", None, None, 0, out.ret, <<>>, <<>>)
       /\ UNCHANGED <<LedgerVars, faiss, recognizer, workers>>

Recognize(image, threshold) ==
    /\ last' = Call("recognize", None, image, threshold, TRUE,
                    recognize_face(embeddings_db, image, threshold),
                    IF last.op = "enroll" /\ last.ret THEN <<last.name, last.image>> ELSE <<>>)
    /\ UNCHANGED <<StoreVars, LedgerVars, faiss, recognizer, workers>>

LogAttendance(name) ==
    LET out == log_attendance(daily_attendance, attendance_file, today, name)
    IN /\ daily_attendance' = out.da
       /\ attendance_file' = out.file
       /\ last' = Call("log", name, None, 0, out.ret, <<>>, <<>>)
       /\ UNCHANGED <<today, StoreVars, faiss, recognizer, workers>>

\* midnight passes
Tick ==
    /\ today < MaxDay
    /\ today' = today + 1
    /\ last' = Call("tick", None, None, 0, TRUE, <<>>, <<>>)
    /\ UNCHANGED <<attendance_file, daily_attendance, StoreVars, faiss, recognizer, workers>>

\* the process is restarted: __init__ builds both in-memory structures from the files
Restart ==
    /\ daily_attendance' = load_today_attendance(attendance_file, today)
    /\ embeddings_db' = load_embeddings(embeddings_file)
    /\ last' = Call("restart", None, None, 0, TRUE, <<>>, <<>>)
    /\ UNCHANGED <<embeddings_file, attendance_file, today, enrolled, faiss, recognizer, workers>>

\* The embedding store and the matcher
Next ==
    \/ \E name \in Names, image \in Images : Enroll(name, image)
    \/ \E name \in Names : Delete(name)
    \/ Clear
    \/ \E image \in Images, threshold \in Thresholds : Recognize(image, threshold)
    \/ Restart

Spec == Init /\ [][Next]_vars

\* The attendance ledger
NextLedger ==
    \/ \E name \in Names : LogAttendance(name)
    \/ Tick
    \/ Restart

SpecLedger == Init /\ [][NextLedger]_vars

---------------------------------------------------------------------------
(* Properties *)

LedgerRows == 2..Len(attendance_file)

HasRow(file, d, name) ==
    \E i \in 2..Len(file) : file[i].Date = d /\ file[i].Name = name

\* C1: after any sequence of log_attendance calls, day changes and restarts, the
\* ledger holds at most one row for any (name, date) pair.
C1_OneRowPerNameAndDate ==
    \A i \in LedgerRows, j \in LedgerRows :
        (/\ attendance_file[i].Date = attendance_file[j].Date
         /\ attendance_file[i].Name = attendance_file[j].Name) => i = j

\* C1 witness: on the second day, after a restart on that day (only today's set is
\* in memory), a name that already has a row today was logged again and refused.
C1_Witness ==
    /\ today = 2
    /\ DOMAIN daily_attendance = {2}
    /\ last.op = "log" /\ ~last.ret
    /\ HasRow(attendance_file, 1, last.name)
    /\ HasRow(attendance_file, 2, last.name)

\* C2: a log_attendance call returns true exactly when the ledger has no row yet for
\* that name on the current day: of two calls on one day the first returns true and
\* the second false, and calls on two different days both return true, restart or not.
C2_TrueThenFalse ==
    [][\A n \in Names :
          (last'.op = "log" /\ last'.name = n)
              => (last'.ret = ~HasRow(attendance_file, today, n))]_vars

\* C2 witness: with no restart since day 1 (both days' sets are in memory), Bob was
\* logged on day 1 and on day 2, and a second call on day 2 returned false.
C2_Witness ==
    /\ today = 2
    /\ DOMAIN daily_attendance = {1, 2}
    /\ last.op = "log" /\ last.name = "Bob" /\ ~last.ret
    /\ HasRow(attendance_file, 1, "Bob")
    /\ HasRow(attendance_file, 2, "Bob")

C3_Cap ==
    \A i \in DOMAIN embeddings_db :
        Len(embeddings_db[i].embs) <= max_embeddings_per_person

C3_Eviction ==
    \A n \in Names, image \in Images :
        (last'.op = "enroll" /\ last'.ret /\ last'.name = n /\ last'.image = image) =>
            LET offered == BagOfSeq(Get(embeddings_db, n)) (+) SetToBag({embedding_data(image)})
                kept    == Get(embeddings_db', n)
                evicted == offered (-) BagOfSeq(kept)
            IN /\ BagOfSeq(kept) \sqsubseteq offered
               /\ \A e \in BagToSet(evicted), k \in Range(kept) : Product(e) <= Product(k)

\* C3: in every reachable state of the store each person's list has at most
\* max_embeddings_per_person entries, and the entries an enroll drops have a
\* quality_score * det_score product no higher than that of every entry it keeps.
C3_CapAndEviction == []C3_Cap /\ [][C3_Eviction]_vars

\* C3 witness: an enroll has just dropped an entry from a full list.
C3_Witness ==
    /\ last.op = "enroll" /\ last.ret
    /\ Len(Get(embeddings_db, last.name)) = max_embeddings_per_person
    /\ BagCardinality(enrolled[last.name]) > max_embeddings_per_person

NotKept(n) == enrolled[n] (-) BagOfSeq(Get(embeddings_db, n))

\* C4: once more than max_embeddings_per_person records have been enrolled for a
\* person with no delete or clear in between, the list has exactly the cap's worth
\* of entries and they are the ones with the highest products among those enrolled.
C4_CapKeepsHighest ==
    \A n \in Names :
        BagCardinality(enrolled[n]) > max_embeddings_per_person =>
            /\ Len(Get(embeddings_db, n)) = max_embeddings_per_person
            /\ BagOfSeq(Get(embeddings_db, n)) \sqsubseteq enrolled[n]
            /\ \A e \in BagToSet(NotKept(n)), k \in Range(Get(embeddings_db, n)) :
                   Product(e) <= Product(k)

\* C4 witness: a person with more enrollments than the cap, where a record of a
\* strictly lower product than every kept one was dropped.
C4_Witness ==
    \E n \in Names :
        /\ BagCardinality(enrolled[n]) > max_embeddings_per_person
        /\ \E e \in BagToSet(NotKept(n)) :
               \A k \in Range(Get(embeddings_db, n)) : Product(e) < Product(k)

\* the position, among the faces of the image, of the face enroll_person stores
EnrolledFace(image) ==
    CHOOSE i \in DOMAIN detect_and_extract(image) :
        detect_and_extract(image)[i] = embedding_data(image)

\* threshold * (0.8 + 0.2 * quality) <= score, for a score in the units of confidence
Reaches(score, threshold, quality) ==
    score * 50 >= 3 * NormSq * threshold * (800 + 2 * quality)

ScoreOf(n, image) ==
    avg_similarity(embedding_data(image).embedding, Get(embeddings_db, n))

\* a recognize of the image that was enrolled for n by the call just before it
RecognizedAfterEnroll(n, image) ==
    /\ last.op = "recognize"
    /\ last.prev = <<n, image>>
    /\ last.image = image

\* C5 as claimed: after enroll(name, image) returns true, recognize(image, threshold)
\* with the adjusted threshold no greater than the person's score gives, for the
\* enrolled face, matched = true and the enrolled name; and with one person enrolled
\* from one image and a second from a different image, recognizing the first image
\* at threshold 0.5 gives the first person.
C5_AsClaimed ==
    /\ \A n \in Names, image \in Images :
           (/\ RecognizedAfterEnroll(n, image)
            /\ Reaches(ScoreOf(n, image), last.threshold,
                       embedding_data(image).quality_score))
               => /\ last.results[EnrolledFace(image)].matched
                  /\ last.results[EnrolledFace(image)].name = n
    /\ \A a \in Images, b \in Images :
           (/\ last.op = "recognize" /\ last.image = a /\ last.threshold = 50
            /\ a # b
            /\ quality_faces(detect_and_extract(a)) # <<>>
            /\ quality_faces(detect_and_extract(b)) # <<>>
            /\ embeddings_db = << [name |-> "Alice", embs |-> <<embedding_data(a)>>],
                                  [name |-> "Bob", embs |-> <<embedding_data(b)>>] >>)
               => /\ last.results[EnrolledFace(a)].matched
                  /\ last.results[EnrolledFace(a)].name = "Alice"

\* C5 amended: after enroll(name, image) returns true, recognize(image, threshold)
\* with the adjusted threshold no greater than the person's score gives matched =
\* true for the enrolled face; the name is the enrolled name when that person's score
\* is positive and strictly higher than the score of every other enrolled person.
C5_MatchedAndNameWhenBest ==
    \A n \in Names, image \in Images :
        (/\ RecognizedAfterEnroll(n, image)
         /\ Reaches(ScoreOf(n, image), last.threshold,
                    embedding_data(image).quality_score))
            => /\ last.results[EnrolledFace(image)].matched
               /\ (/\ ScoreOf(n, image) > 0
                   /\ \A m \in Keys(embeddings_db) \ {n} :
                          Get(embeddings_db, m) = <<>> \/ ScoreOf(m, image) < ScoreOf(n, image))
                      => last.results[EnrolledFace(image)].name = n

\* C5 witness: two persons are enrolled, the one enrolled last scores strictly
\* highest on the image just enrolled, and recognize names that person.
C5_Witness ==
    \E n \in Names, image \in Images :
        /\ RecognizedAfterEnroll(n, image)
        /\ Len(embeddings_db) = 2
        /\ embeddings_db[1].name = n
        /\ \A m \in Keys(embeddings_db) \ {n} :
               Get(embeddings_db, m) # <<>> /\ 0 < ScoreOf(m, image)
                                            /\ ScoreOf(m, image) < ScoreOf(n, image)
        /\ last.results[EnrolledFace(image)].matched
        /\ last.results[EnrolledFace(image)].name = n

\* C6 as claimed: for every threshold, a detected face gets matched = false and name
\* = none whenever the store is empty or no person's score reaches the adjusted
\* threshold.
C6_NoMatchWhenNothingReaches ==
    last.op = "recognize" =>
        \A i \in DOMAIN last.results :
            LET face == detect_and_extract(last.image)[i]
            IN (\/ embeddings_db = <<>>
                \/ \A p \in DOMAIN embeddings_db :
                       \/ embeddings_db[p].embs = <<>>
                       \/ ~Reaches(avg_similarity(face.embedding, embeddings_db[p].embs),
                                   last.threshold, face.quality_score))
                   => (~last.results[i].matched /\ last.results[i].name = None)

\* C7: delete of a name that is not enrolled returns false and leaves the store,
\* the enrolled count and the persisted file as they were.
C7_DeleteAbsent ==
    [][\A n \in Names :
          (last'.op = "delete" /\ last'.name = n /\ ~Has(embeddings_db, n))
              => /\ ~last'.ret
                 /\ embeddings_db' = embeddings_db
                 /\ get_enrolled_count(embeddings_db') = get_enrolled_count(embeddings_db)
                 /\ embeddings_file' = embeddings_file]_vars

\* C7 witness: a delete returned false while somebody else is enrolled.
C7_Witness ==
    /\ last.op = "delete" /\ ~last.ret
    /\ ~Has(embeddings_db, last.name)
    /\ get_enrolled_count(embeddings_db) > 0

\* C8: delete of an enrolled name returns true, removes that person with the whole
\* list, and leaves every other person's list and the attendance ledger unchanged.
C8_DeleteEnrolled ==
    [][\A n \in Names :
          (last'.op = "delete" /\ last'.name = n /\ Has(embeddings_db, n))
              => /\ last'.ret
                 /\ ~Has(embeddings_db', n)
                 /\ \A m \in Names \ {n} :
                        /\ Has(embeddings_db', m) = Has(embeddings_db, m)
                        /\ Get(embeddings_db', m) = Get(embeddings_db, m)
                 /\ attendance_file' = attendance_file
                 /\ daily_attendance' = daily_attendance]_vars

\* C8 witness: a delete returned true, another person is still enrolled and the
\* ledger has a row.
C8_Witness ==
    /\ last.op = "delete" /\ last.ret
    /\ ~Has(embeddings_db, last.name)
    /\ get_enrolled_count(embeddings_db) > 0
    /\ Len(attendance_file) > 1

NoUsableFace(image) ==
    \A i \in DOMAIN detect_and_extract(image) :
        detect_and_extract(image)[i].quality_score < min_embedding_quality

\* C9: enroll returns false when the image has no face candidate, or none with a
\* quality_score of at least min_embedding_quality; the store and the file are then
\* unchanged and no entry is created for the name.
C9_EnrollRejected ==
    [][\A n \in Names, image \in Images :
          (last'.op = "enroll" /\ last'.name = n /\ last'.image = image
           /\ NoUsableFace(image))
              => /\ ~last'.ret
                 /\ embeddings_db' = embeddings_db
                 /\ Has(embeddings_db', n) = Has(embeddings_db, n)
                 /\ embeddings_file' = embeddings_file]_vars

\* C9 witness: an image whose only face is below the minimum quality was refused
\* for a name that is not enrolled, while somebody else is.
C9_Witness ==
    /\ last.op = "enroll" /\ ~last.ret
    /\ detect_and_extract(last.image) # <<>>
    /\ ~Has(embeddings_db, last.name)
    /\ embeddings_db # <<>>

FileEncodes(file, db) ==
    /\ file.exists
    /\ file.parses
    /\ Len(file.data) = Len(db)
    /\ \A i \in DOMAIN db :
           /\ file.data[i].name = db[i].name
           /\ Len(file.data[i].items) = Len(db[i].embs)
           /\ \A j \in DOMAIN db[i].embs :
                  /\ file.data[i].items[j].kind = "dict"
                  /\ file.data[i].items[j].embedding = db[i].embs[j].embedding
                  /\ file.data[i].items[j].quality_score = db[i].embs[j].quality_score
                  /\ file.data[i].items[j].det_score = db[i].embs[j].det_score

\* C10: after every enroll that returns true, every delete that returns true and
\* every clear, the persisted file holds exactly the in-memory store: the same
\* names, and the same records for each.
C10_FileIsStore ==
    (last.op \in {"enroll", "delete", "clear"} /\ last.ret)
        => FileEncodes(embeddings_file, embeddings_db)

\* C10 witness: an enroll has just returned true with two persons in the store, one
\* of them holding two records.
C10_Witness ==
    /\ last.op = "enroll" /\ last.ret
    /\ Len(embeddings_db) = 2
    /\ \E i \in DOMAIN embeddings_db : Len(embeddings_db[i].embs) = 2
    /\ FileEncodes(embeddings_file, embeddings_db)

---------------------------------------------------------------------------
(* C11: a fresh instance that loads the file written by save_embeddings holds the *)
(* same person names and, for each person, the same records (embedding,          *)
(* quality_score, det_score) in the same order as the store that was saved.      *)

SameStore(a, b) ==
    /\ Keys(a) = Keys(b)
    /\ \A n \in Keys(a) : Get(a, n) = Get(b, n)

C11_SaveThenLoad ==
    [][(last'.op = "restart" /\ embeddings_file = save_embeddings(embeddings_db))
          => SameStore(embeddings_db', embeddings_db)]_vars

C11_Witness ==
    /\ last.op = "restart"
    /\ embeddings_file = save_embeddings(embeddings_db)
    /\ Keys(embeddings_db) = Names
    /\ \E n \in Names : /\ Len(Get(embeddings_db, n)) = 2
                        /\ Get(embeddings_db, n)[1].quality_score
                              # Get(embeddings_db, n)[2].quality_score

---------------------------------------------------------------------------
(* Input and output errors.  A write of the embeddings file can fail when the    *)
(* file is opened (the file stays as it was) or while json.dump writes (the file *)
(* is left truncated); the file found at start can be unparseable or malformed.  *)

Faults == {"none", "open", "write"}

\* the images enrolled while writes can fail: one without a face, one with a usable face
FaultImages == {"none", "A"}

BrokenFile == [exists |-> TRUE, parses |-> FALSE, data |-> <<>>]

\* Alice is well formed; Bob's second item is an object without 'embedding'
MalformedFile ==
    [exists |-> TRUE, parses |-> TRUE,
     data   |-> << [name |-> "Alice",
                    items |-> << [kind |-> "dict", embedding |-> <<3, 4>>,
                                  quality_score |-> 50, det_score |-> 50] >>],
                   [name |-> "Bob",
                    items |-> << [kind |-> "dict", embedding |-> <<5, 0>>,
                                  quality_score |-> 20, det_score |-> 60],
                                 [kind |-> "bad"] >>] >>]

\* load_embeddings meets an exception on this file
LoadFails(file) ==
    /\ file.exists
    /\ \/ ~file.parses
       \/ \E i \in DOMAIN file.data : \E j \in DOMAIN file.data[i].items :
             file.data[i].items[j].kind = "bad"

\* the file after save_embeddings raised
FailedWrite(file, fault) == IF fault = "open" THEN file ELSE BrokenFile

IOOutcome(ret, raised, db, file) == [ret |-> ret, raised |-> raised, db |-> db, file |-> file]

\* an operation whose last statements are self.save_embeddings() and return True:
\* nothing catches what save_embeddings raises, the store is already changed
WithFault(out, saves, file, fault) ==
    IF saves /\ fault # "none"
    THEN IOOutcome(None, TRUE, out.db, FailedWrite(file, fault))
    ELSE IOOutcome(out.ret, FALSE, out.db, out.file)

enroll_person_io(db, file, name, image, fault) ==
    LET out == enroll_person(db, file, name, image)
    IN WithFault(out, out.ret, file, fault)

delete_person_io(db, file, name, fault) ==
    LET out == delete_person(db, file, name)
    IN WithFault(out, out.ret, file, fault)

clear_all_data_io(db, file, fault) ==
    WithFault(clear_all_data(db, file), TRUE, file, fault)

\* log_attendance: the append is inside try / except, which returns False
\* a bug: the name is remembered although the append failed
log_attendance_io_Remember(da, file, d, name, fault) ==
    IF ~AlreadyRecorded(da, d, name) /\ fault # "none"
    THEN LogOutcome(FALSE, AddName(da, d, name), file)
    ELSE log_attendance(da, file, d, name)

log_attendance_io(da, file, d, name, fault) ==
    IF ~AlreadyRecorded(da, d, name) /\ fault # "none"
    THEN LogOutcome(FALSE, WithToday(da, d), file)
    ELSE log_attendance(da, file, d, name)

CallIO(op, name, image, ret, raised, write_error) ==
    [op |-> op, name |-> name, image |-> image, ret |-> ret,
     raised |-> raised, write_error |-> write_error]

InitEmbeddingFilesIO == {NoFile, LegacyFile, MalformedFile, BrokenFile}

InitIO ==
    /\ embeddings_file \in InitEmbeddingFilesIO
    /\ attendance_file = <<Header>>
    /\ today = 1
    /\ daily_attendance = load_today_attendance(attendance_file, today)
    /\ embeddings_db = load_embeddings(embeddings_file)
    /\ enrolled = [n \in Names |-> BagOfSeq(Get(embeddings_db, n))]
    /\ faiss = FaissStart(NoIndexFile, NoMetadataFile, <<>>)
    /\ recognizer = RecognizerNew
    /\ workers = WorkersStart(FALSE, attendance_file, today)
    /\ last = CallIO("init", None, None, TRUE, FALSE, FALSE)

EnrollIO(name, image, fault) ==
    LET out   == enroll_person_io(embeddings_db, embeddings_file, name, image, fault)
        added == enroll_person(embeddings_db, embeddings_file, name, image).ret
    IN /\ added => BagCardinality(enrolled[name]) < MaxEnrolled
       /\ embeddings_db' = out.db
       /\ embeddings_file' = out.file
       /\ enrolled' = IF added
                      THEN [enrolled EXCEPT ![name] = @ (+) SetToBag({embedding_data(image)})]
                      ELSE enrolled
       /\ last' = CallIO("enroll", name, image, out.ret, out.raised, fault # "none" /\ added)
       /\ UNCHANGED <<LedgerVars, faiss, recognizer, workers>>

DeleteIO(name, fault) ==
    LET out == delete_person_io(embeddings_db, embeddings_file, name, fault)
    IN /\ embeddings_db' = out.db
       /\ embeddings_file' = out.file
       /\ enrolled' = [enrolled EXCEPT ![name] = EmptyBag]
       /\ last' = CallIO("delete", name, None, out.ret, out.raised,
                         fault # "none" /\ Has(embeddings_db, name))
       /\ UNCHANGED <<LedgerVars, faiss, recognizer, workers>>

ClearIO(fault) ==
    LET out == clear_all_data_io(embeddings_db, embeddings_file, fault)
    IN /\ embeddings_db' = out.db
       /\ embeddings_file' = out.file
       /\ enrolled' = [n \in Names |-> EmptyBag]
       /\ last' = CallIO("clear", None, None, out.ret, out.raised, fault # "none")
       /\ UNCHANGED <<LedgerVars, faiss, recognizer, workers>>

LogAttendanceIO(name, fault) ==
    LET out == log_attendance_io(daily_attendance, attendance_file, today, name, fault)
    IN /\ daily_attendance' = out.da
       /\ attendance_file' = out.file
       /\ last' = [op |-> "log", name |-> name, image |-> None, ret |-> out.ret,
                   raised |-> FALSE,
                   write_error |-> fault # "none"
                                     /\ ~AlreadyRecorded(daily_attendance, today, name),
                   after_error |-> last.op = "log" /\ last.name = name
                                     /\ last.write_error]
       /\ UNCHANGED <<today, StoreVars, faiss, recognizer, workers>>

RestartIO ==
    /\ daily_attendance' = load_today_attendance(attendance_file, today)
    /\ embeddings_db' = load_embeddings(embeddings_file)
    /\ last' = CallIO("restart", None, None, TRUE, FALSE, FALSE)
    /\ UNCHANGED <<embeddings_file, attendance_file, today, enrolled, faiss, recognizer, workers>>

NextIO ==
    \/ \E name \in Names, image \in FaultImages, fault \in Faults : EnrollIO(name, image, fault)
    \/ \E name \in Names, fault \in Faults : DeleteIO(name, fault)
    \/ \E fault \in Faults : ClearIO(fault)
    \/ \E name \in Names, fault \in Faults : LogAttendanceIO(name, fault)
    \/ RestartIO

SpecIO == InitIO /\ [][NextIO]_vars

---------------------------------------------------------------------------
(* C12: when the write of the embeddings file fails inside enroll, delete or     *)
(* clear, or the append of a ledger row fails, the operation returns false and   *)
(* raises nothing.                                                               *)

C12_WriteErrorSwallowed ==
    last.write_error => (~last.raised /\ last.ret = FALSE)

\* the part of C12 that the code keeps: the ledger append
C12_LedgerErrorSwallowed ==
    (last.write_error /\ last.op = "log") => (~last.raised /\ last.ret = FALSE)

---------------------------------------------------------------------------
(* C13: when loading the embeddings file fails (unreadable, or malformed partway *)
(* through the persons), nothing is raised and the store in memory is empty.     *)

C13_FailedLoadLeavesEmptyStore ==
    (last.op \in {"init", "restart"} /\ LoadFails(embeddings_file))
        => embeddings_db = <<>>

\* the part of C13 that the code keeps: a file that cannot be parsed at all
C13_UnparseableFileLeavesEmptyStore ==
    (last.op \in {"init", "restart"} /\ embeddings_file.exists /\ ~embeddings_file.parses)
        => embeddings_db = <<>>

---------------------------------------------------------------------------
(* The FAISS matcher on its own: the files found at start and its operations *)

SavedRow == <<5, 0>>
SavedIndexFile == [exists |-> TRUE, rows |-> <<SavedRow>>]
SavedMetadataFile ==
    [exists |-> TRUE, student_ids |-> <<"s1">>, metadata |-> [x \in {"s1"} |-> "m"]]

\* no files, both files of one save, or only one of them
InitFaissFiles ==
    { <<NoIndexFile, NoMetadataFile, <<>> >>,
      <<SavedIndexFile, SavedMetadataFile, <<SavedRow>> >>,
      <<SavedIndexFile, NoMetadataFile, <<>> >>,
      <<NoIndexFile, SavedMetadataFile, <<SavedRow>> >> }

InitFaiss ==
    /\ embeddings_file = NoFile
    /\ attendance_file = <<Header>>
    /\ today = 1
    /\ daily_attendance = load_today_attendance(attendance_file, today)
    /\ embeddings_db = load_embeddings(embeddings_file)
    /\ enrolled = [n \in Names |-> EmptyBag]
    /\ last = Call("init", None, None, 0, TRUE, <<>>, <<>>)
    /\ \E f \in InitFaissFiles : faiss = FaissStart(f[1], f[2], f[3])
    /\ recognizer = RecognizerNew
    /\ workers = WorkersStart(FALSE, attendance_file, today)

FaissAdd(student_id, embedding, metadata) ==
    LET out == add_student(faiss, student_id, embedding, metadata)
    IN /\ Len(faiss.student_ids) < MaxStudents
       /\ faiss' = [out.m EXCEPT !.call = FaissCall("add", student_id, embedding, 0, out.ret, <<>>)]
       /\ UNCHANGED <<StoreVars, LedgerVars, last, recognizer, workers>>

FaissSearch(query_embedding, k) ==
    /\ faiss' = [faiss EXCEPT !.call = FaissCall("search", None, query_embedding, k, TRUE,
                                                 search(faiss, query_embedding, k))]
    /\ UNCHANGED <<StoreVars, LedgerVars, last, recognizer, workers>>

FaissRemove(student_id) ==
    LET out == remove_student(faiss, student_id)
    IN /\ faiss' = [out.m EXCEPT !.call = FaissCall("remove", student_id, <<>>, 0, out.ret, <<>>)]
       /\ UNCHANGED <<StoreVars, LedgerVars, last, recognizer, workers>>

FaissSave ==
    /\ faiss' = [save_index(faiss).m EXCEPT
                    !.call = FaissCall("save", None, <<>>, 0, save_index(faiss).ret, <<>>)]
    /\ UNCHANGED <<StoreVars, LedgerVars, last, recognizer, workers>>

FaissClear ==
    /\ faiss' = [clear_index(faiss).m EXCEPT
                    !.call = FaissCall("clear", None, <<>>, 0, clear_index(faiss).ret, <<>>)]
    /\ UNCHANGED <<StoreVars, LedgerVars, last, recognizer, workers>>

\* a new process constructs the matcher from the files
FaissRestart ==
    LET out == load_index(FaissNew(faiss.index_file, faiss.metadata_file, faiss.saved_added))
    IN /\ faiss' = [out.m EXCEPT !.call = FaissCall("restart", None, <<>>, 0, out.ret, <<>>)]
       /\ UNCHANGED <<StoreVars, LedgerVars, last, recognizer, workers>>

NextFaiss ==
    \/ \E id \in StudentIds, e \in AddEmbeddings, md \in Metas : FaissAdd(id, e, md)
    \/ \E q \in QueryEmbeddings, k \in SearchSizes : FaissSearch(q, k)
    \/ \E id \in StudentIds : FaissRemove(id)
    \/ FaissSave
    \/ FaissClear
    \/ FaissRestart

SpecFaiss == InitFaiss /\ [][NextFaiss]_vars

---------------------------------------------------------------------------
(* C14: in every reachable state of the matcher there are as many student        *)
(* identifiers as index rows, and row i is the embedding added for               *)
(* student_ids[i].                                                               *)

C14_RowsMatchIds ==
    /\ Len(faiss.student_ids) = Len(faiss.index)
    /\ \A i \in DOMAIN faiss.student_ids : faiss.index[i] = faiss.added[i]

---------------------------------------------------------------------------
(* C15: after a successful remove, every surviving student's embedding is in the *)
(* index and a search with it returns that student as a match.                   *)

C15_SurvivorsSearchable ==
    (faiss.call.op = "remove" /\ faiss.call.ret)
        => \A i \in DOMAIN faiss.student_ids :
              /\ faiss.added[i] \in Range(faiss.index)
              /\ \E r \in Range(search(faiss, faiss.added[i], MaxStudents)) :
                    r.is_match /\ r.student_id = faiss.student_ids[i]

---------------------------------------------------------------------------
(* C16: a matcher constructed while only one of the two files is present has an  *)
(* empty index, no student identifiers and no metadata.                          *)

C16_OneFileIsNoIndex ==
    (/\ faiss.call.op \in {"init", "restart"}
     /\ faiss.index_file.exists # faiss.metadata_file.exists)
        => /\ faiss.index = <<>>
           /\ faiss.student_ids = <<>>
           /\ DOMAIN faiss.metadata = {}

C16_Witness ==
    /\ faiss.call.op = "restart"
    /\ ~faiss.index_file.exists
    /\ faiss.metadata_file.exists
    /\ faiss.metadata_file.student_ids # <<>>
    /\ faiss.student_ids = <<>>

---------------------------------------------------------------------------
(* C20: on an empty index search returns one result, not a match and without a   *)
(* student; otherwise every result that stands for a row with a student has      *)
(* is_match true exactly when its similarity reaches the threshold, and carries  *)
(* that row's student when it is a match and none when it is not.                *)

\* the rows whose similarity to the query could stand at place i of the ranking
RowsAtRank(index, query, i) ==
    {r \in DOMAIN index :
        /\ Cardinality({x \in DOMAIN index : Dot(query, index[x]) > Dot(query, index[r])}) < i
        /\ Cardinality({x \in DOMAIN index : Dot(query, index[x]) >= Dot(query, index[r])}) >= i}

C20_SearchResults ==
    faiss.call.op = "search" =>
        LET res   == faiss.call.results
            query == Normalize(faiss.call.query)
        IN IF faiss.index = <<>>
           THEN /\ Len(res) = 1
                /\ res[1].student_id = None
                /\ ~res[1].is_match
           ELSE /\ Len(res) = faiss.call.k
                /\ \A i \in DOMAIN res :
                      \/ i > Len(faiss.index) /\ res[i].student_id = None /\ ~res[i].is_match
                      \/ \E r \in RowsAtRank(faiss.index, query, i) :
                            IF r > Len(faiss.student_ids)
                            THEN res[i].student_id = None /\ ~res[i].is_match
                            ELSE /\ res[i].confidence = Dot(query, faiss.index[r])
                                 /\ res[i].is_match
                                      <=> (res[i].confidence * 100 >= similarity_threshold * NormSq)
                                 /\ res[i].student_id =
                                      IF res[i].is_match THEN faiss.student_ids[r] ELSE None

C20_Witness ==
    /\ faiss.call.op = "search"
    /\ Len(faiss.call.results) = 2
    /\ \E i, j \in DOMAIN faiss.call.results :
          /\ faiss.call.results[i].is_match
          /\ faiss.call.results[i].student_id \in StudentIds
          /\ ~faiss.call.results[j].is_match
          /\ faiss.call.results[j].confidence > 0
          /\ faiss.call.results[j].student_id = None

---------------------------------------------------------------------------
(* enroll_multiple_images: every image goes through enroll_person in turn.  The  *)
(* mean quality is kept as the pair (total_quality, successful_enrollments).     *)

MaxImages == 2

ImageLists == UNION {[1..n -> Images] : n \in 0..MaxImages}

MultiOutcome(db, file, count, total) ==
    [db |-> db, file |-> file, successful_enrollments |-> count, total_quality |-> total]

\* the loop over images[1..i]
RECURSIVE EnrollEach(_, _, _, _, _)
EnrollEach(db, file, name, images, i) ==
    IF i = 0 THEN MultiOutcome(db, file, 0, 0)
    ELSE LET before == EnrollEach(db, file, name, images, i - 1)
             out    == enroll_person(before.db, before.file, name, images[i])
             stored == Get(out.db, name)
         IN IF out.ret
            THEN MultiOutcome(out.db, out.file, before.successful_enrollments + 1,
                              IF Has(out.db, name) /\ stored # <<>>
                              THEN before.total_quality + stored[Len(stored)].quality_score
                              ELSE before.total_quality)
            ELSE MultiOutcome(out.db, out.file, before.successful_enrollments,
                              before.total_quality)

Mean(total, count) == [total |-> total, count |-> count]

enroll_multiple_images(db, file, name, images) ==
    LET done == EnrollEach(db, file, name, images, Len(images))
    IN [db   |-> done.db,
        file |-> done.file,
        ret  |-> [success          |-> done.successful_enrollments > 0,
                  enrolled_count   |-> done.successful_enrollments,
                  total_embeddings |-> Len(Get(done.db, name)),
                  avg_quality      |-> IF done.successful_enrollments > 0
                                       THEN Mean(done.total_quality, done.successful_enrollments)
                                       ELSE Mean(0, 1)]]

\* the records the successful enrollments of the images have stored
RECURSIVE StoredBy(_, _)
StoredBy(images, i) ==
    IF i = 0 THEN EmptyBag
    ELSE IF quality_faces(detect_and_extract(images[i])) = <<>> THEN StoredBy(images, i - 1)
    ELSE StoredBy(images, i - 1) (+) SetToBag({embedding_data(images[i])})

EnrollMultiple(name, images) ==
    LET out == enroll_multiple_images(embeddings_db, embeddings_file, name, images)
    IN /\ BagCardinality(enrolled[name]) + out.ret.enrolled_count <= MaxEnrolled
       /\ embeddings_db' = out.db
       /\ embeddings_file' = out.file
       /\ enrolled' = [enrolled EXCEPT ![name] = @ (+) StoredBy(images, Len(images))]
       /\ last' = Call("enroll_multiple", name, images, 0, out.ret.success, out.ret, <<>>)
       /\ UNCHANGED <<LedgerVars, faiss, recognizer, workers>>

NextMulti ==
    \/ \E name \in Names, images \in ImageLists : EnrollMultiple(name, images)
    \/ \E name \in Names : Delete(name)
    \/ Clear

SpecMulti == Init /\ [][NextMulti]_vars

---------------------------------------------------------------------------
(* C17: enroll_multiple_images reports success exactly when an image enrolled,   *)
(* enrolled_count as the number of images that single-image enroll accepts,      *)
(* total_embeddings as the length of the person's list afterwards, and           *)
(* avg_quality as the mean quality of the embeddings those enrollments added.    *)

Usable(image) ==
    \E i \in DOMAIN detect_and_extract(image) :
        detect_and_extract(image)[i].quality_score >= min_embedding_quality

\* the quality of the face that enroll adds for a usable image
AddedQuality(image) ==
    LET fs == {f \in Range(detect_and_extract(image)) :
                  f.quality_score >= min_embedding_quality}
    IN (CHOOSE f \in fs : \A g \in fs :
            f.quality_score * f.det_score >= g.quality_score * g.det_score).quality_score

RECURSIVE SumAddedQuality(_, _)
SumAddedQuality(images, i) ==
    IF i = 0 THEN 0
    ELSE SumAddedQuality(images, i - 1)
            + (IF Usable(images[i]) THEN AddedQuality(images[i]) ELSE 0)

C17_Aggregates ==
    last.op = "enroll_multiple" =>
        LET images == last.image
            n      == Cardinality({i \in DOMAIN images : Usable(images[i])})
            res    == last.results
        IN /\ res.success <=> (n > 0)
           /\ res.enrolled_count = n
           /\ res.total_embeddings = Len(Get(embeddings_db, last.name))
           /\ IF n = 0 THEN res.avg_quality.total = 0
              ELSE res.avg_quality.total * n
                      = SumAddedQuality(images, Len(images)) * res.avg_quality.count

\* the parts of C17 that the code keeps: the three counts
C17_Counts ==
    last.op = "enroll_multiple" =>
        LET images == last.image
            n      == Cardinality({i \in DOMAIN images : Usable(images[i])})
        IN /\ last.results.success <=> (n > 0)
           /\ last.results.enrolled_count = n
           /\ last.results.total_embeddings = Len(Get(embeddings_db, last.name))

---------------------------------------------------------------------------
(* C18: for each detected face, matched is true exactly when the highest person  *)
(* score over the store reaches threshold * (0.8 + 0.2 * query quality), and the *)
(* name returned with a match is a person holding that highest score.            *)

\* the positions of the persons that have a score: those with embeddings
Scored == {p \in DOMAIN embeddings_db : embeddings_db[p].embs # <<>>}

PersonScore(p, face) == avg_similarity(face.embedding, embeddings_db[p].embs)

Highest(p, face) == \A q \in Scored : PersonScore(q, face) <= PersonScore(p, face)

C18_MatchedIffHighestReaches ==
    last.op = "recognize" =>
        \A i \in DOMAIN last.results :
            LET face == detect_and_extract(last.image)[i]
            IN /\ last.results[i].matched
                    <=> \E p \in Scored :
                           /\ Highest(p, face)
                           /\ Reaches(PersonScore(p, face), last.threshold, face.quality_score)
               /\ last.results[i].matched
                    => \E p \in Scored :
                          Highest(p, face) /\ last.results[i].name = embeddings_db[p].name

\* the same for the thresholds above zero, where the code keeps it
C18_AboveZero ==
    (last.op = "recognize" /\ last.threshold > 0) => C18_MatchedIffHighestReaches

---------------------------------------------------------------------------
(* Recognition against a store as load_embeddings can hand it over: one person   *)
(* with up to MaxStored embeddings (load does not truncate, and the cap of the   *)
(* code is 20), with or without a second person.                                 *)

MaxStored == 4

ScoreRecords ==
    {embedding_data("A"), embedding_data("B"), Face(<<3, 4>>, 50, 50), Face(<<0 - 5, 0>>, 50, 80)}

\* the lists enroll_person can have left: sorted by quality_score * det_score
StoredLists == {SortDesc(s) : s \in UNION {[1..n -> ScoreRecords] : n \in 1..MaxStored}}

ScoreStores ==
    {<<[name |-> "Alice", embs |-> a]>> : a \in StoredLists}
        \cup {<<[name |-> "Alice", embs |-> a], [name |-> "Bob", embs |-> <<b>>]>> :
                 a \in StoredLists, b \in ScoreRecords}

InitScore ==
    /\ embeddings_db \in ScoreStores
    /\ embeddings_file = save_embeddings(embeddings_db)
    /\ attendance_file = <<Header>>
    /\ today = 1
    /\ daily_attendance = load_today_attendance(attendance_file, today)
    /\ enrolled = [n \in Names |-> BagOfSeq(Get(embeddings_db, n))]
    /\ faiss = FaissStart(NoIndexFile, NoMetadataFile, <<>>)
    /\ recognizer = RecognizerNew
    /\ workers = WorkersStart(FALSE, attendance_file, today)
    /\ last = Call("init", None, None, 0, TRUE, <<>>, <<>>)

NextScore == \E image \in Images, threshold \in Thresholds : Recognize(image, threshold)

SpecScore == InitScore /\ [][NextScore]_vars

---------------------------------------------------------------------------
(* C19: a person's score in recognize is the mean of the person's 3 highest      *)
(* weighted similarities, weighted = raw similarity * (0.7 + 0.3 * stored        *)
(* quality), or the mean of all of them when the person has fewer than 3.        *)

\* raw similarity * (0.7 + 0.3 * stored quality), in thousandths of NormSq
Weighted(query, rec) ==
    (query[1] * rec.embedding[1] + query[2] * rec.embedding[2]) * (700 + 3 * rec.quality_score)

RECURSIVE SumOver(_, _, _)
SumOver(query, stored, picked) ==
    IF picked = {} THEN 0
    ELSE LET j == CHOOSE x \in picked : TRUE
         IN Weighted(query, stored[j]) + SumOver(query, stored, picked \ {j})

\* some k of the similarities, none of the others higher than any of them
TopPositions(query, stored, k) ==
    CHOOSE picked \in SUBSET DOMAIN stored :
        /\ Cardinality(picked) = k
        /\ \A j \in picked, o \in (DOMAIN stored) \ picked :
               Weighted(query, stored[o]) <= Weighted(query, stored[j])

\* the mean in the units of confidence (6 times the thousandths)
Top3Mean(query, stored) ==
    LET k == IF Len(stored) < 3 THEN Len(stored) ELSE 3
    IN (SumOver(query, stored, TopPositions(query, stored, k)) * 6) \div k

C19_ScoreIsMeanOfTop3 ==
    last.op = "recognize" =>
        \A i \in DOMAIN last.results :
            LET query == detect_and_extract(last.image)[i].embedding
                best  == CHOOSE p \in Scored : \A q \in Scored :
                             Top3Mean(query, embeddings_db[q].embs)
                                 <= Top3Mean(query, embeddings_db[p].embs)
                score == Top3Mean(query, embeddings_db[best].embs)
            IN /\ score > 0 => last.results[i].confidence = score
               /\ score <= 0 => last.results[i].confidence = 0

\* C19 witness: the only person has more than 3 embeddings whose weighted
\* similarities to the query differ, and the confidence is that person's score
C19_Witness ==
    /\ last.op = "recognize"
    /\ Len(embeddings_db) = 1
    /\ Len(embeddings_db[1].embs) > 3
    /\ \E i \in DOMAIN last.results :
          LET query  == detect_and_extract(last.image)[i].embedding
              stored == embeddings_db[1].embs
          IN /\ \A j, k \in DOMAIN stored :
                   j # k => Weighted(query, stored[j]) # Weighted(query, stored[k])
             /\ last.results[i].confidence > 0
             /\ last.results[i].confidence = Top3Mean(query, stored)

---------------------------------------------------------------------------
(* FaceQualityFilter (src/src/models/quality_filter.py).  A detected face is its *)
(* bounding box in tenths of a pixel, its cropped image (reduced to what the     *)
(* filter measures: the Laplacian variance and the mean grey level, or empty)    *)
(* and its landmarks (none, or the five points).                                 *)

min_face_size == 60
blur_threshold == 100
min_brightness == 40
max_brightness == 220
max_yaw == 45
max_pitch == 30

MaxFaces == 2

\* DetectedFace(bbox, landmarks, score, image); landmarks <<>> stands for None
DetectedFace(bbox, image, landmarks) ==
    [bbox |-> bbox, image |-> image, landmarks |-> landmarks]

Image(variance, mean) == [empty |-> FALSE, variance |-> variance, mean |-> mean]
EmptyImage == [empty |-> TRUE, variance |-> 0, mean |-> 0]

Frontal == << <<45, 60>>, <<105, 60>>, <<75, 90>>, <<50, 120>>, <<100, 120>> >>
Turned  == << <<45, 60>>, <<105, 60>>, <<110, 90>>, <<50, 120>>, <<100, 120>> >>

\* two faces good in every respect; one too narrow and one too short by a fraction
\* of a pixel and good otherwise; one blurred, one dark, one bright, one turned;
\* one small with an empty crop
DetectedFaces ==
    { DetectedFace(<<0, 0, 600, 600>>, Image(100, 40), Frontal),
      DetectedFace(<<0, 0, 600, 600>>, Image(150, 220), <<>>),
      DetectedFace(<<0, 0, 599, 600>>, Image(100, 40), Frontal),
      DetectedFace(<<0, 0, 600, 599>>, Image(150, 220), <<>>),
      DetectedFace(<<0, 0, 600, 600>>, Image(99, 128), Frontal),
      DetectedFace(<<0, 0, 600, 600>>, Image(150, 39), <<>>),
      DetectedFace(<<0, 0, 600, 600>>, Image(150, 221), <<>>),
      DetectedFace(<<0, 0, 600, 600>>, Image(100, 40), Turned),
      DetectedFace(<<0, 0, 500, 500>>, EmptyImage, Turned) }

\* DetectedFace.width and .height: int(bbox[2] - bbox[0]), int(bbox[3] - bbox[1])
width(face) == (face.bbox[3] - face.bbox[1]) \div 10
height(face) == (face.bbox[4] - face.bbox[2]) \div 10

compute_blur_score(image) == IF image.empty THEN 0 ELSE image.variance

check_brightness(image) ==
    IF image.empty THEN FALSE
    ELSE min_brightness <= image.mean /\ image.mean <= max_brightness

Abs(x) == IF x < 0 THEN 0 - x ELSE x

\* yaw = |nose_offset / eye_distance| * 90 and pitch = (vertical / eye_distance) * 60,
\* compared through their squares, in halves of a pixel; a zero eye distance
\* divides into inf or nan, which no comparison accepts
check_pose(face) ==
    IF face.landmarks = <<>> THEN TRUE
    ELSE IF Len(face.landmarks) < 5 THEN TRUE
    ELSE LET left_eye  == face.landmarks[1]
             right_eye == face.landmarks[2]
             nose      == face.landmarks[3]
             dist2     == (right_eye[1] - left_eye[1]) * (right_eye[1] - left_eye[1])
                          + (right_eye[2] - left_eye[2]) * (right_eye[2] - left_eye[2])
             off2      == Abs(2 * nose[1] - left_eye[1] - right_eye[1])
             vert2     == Abs(2 * nose[2] - left_eye[2] - right_eye[2])
         IN /\ dist2 > 0
            /\ off2 * off2 * 90 * 90 <= (2 * max_yaw) * (2 * max_yaw) * dist2
            /\ vert2 * vert2 * 60 * 60 <= (2 * max_pitch) * (2 * max_pitch) * dist2

QualityMetrics(size_ok, blur_score, brightness_ok, pose_ok, is_acceptable) ==
    [size_ok |-> size_ok, blur_score |-> blur_score, brightness_ok |-> brightness_ok,
     pose_ok |-> pose_ok, is_acceptable |-> is_acceptable]

\* a bug: the size takes no part in the overall acceptance
assess_NoSize(face) ==
    LET size_ok == width(face) >= min_face_size /\ height(face) >= min_face_size
        blur_score == compute_blur_score(face.image)
        brightness_ok == check_brightness(face.image)
        pose_ok == check_pose(face)
    IN QualityMetrics(size_ok, blur_score, brightness_ok, pose_ok,
                      blur_score >= blur_threshold /\ brightness_ok /\ pose_ok)

assess(face) ==
    LET size_ok == width(face) >= min_face_size /\ height(face) >= min_face_size
        blur_score == compute_blur_score(face.image)
        brightness_ok == check_brightness(face.image)
        pose_ok == check_pose(face)
    IN QualityMetrics(size_ok, blur_score, brightness_ok, pose_ok,
                      size_ok /\ blur_score >= blur_threshold /\ brightness_ok /\ pose_ok)

\* a bug: the accepted faces come out in reverse
RECURSIVE filter_Reversed(_)
filter_Reversed(faces) ==
    IF faces = <<>> THEN <<>>
    ELSE IF assess(Head(faces)).is_acceptable
         THEN Append(filter_Reversed(Tail(faces)), Head(faces))
         ELSE filter_Reversed(Tail(faces))

RECURSIVE filter(_)
filter(faces) ==
    IF faces = <<>> THEN <<>>
    ELSE IF assess(Head(faces)).is_acceptable
         THEN <<Head(faces)>> \o filter(Tail(faces))
         ELSE filter(Tail(faces))

FaceLists == UNION {[1..n -> DetectedFaces] : n \in 0..MaxFaces}

Assess(face) ==
    /\ last' = Call("assess", None, face, 0, TRUE, assess(face), <<>>)
    /\ UNCHANGED <<StoreVars, LedgerVars, faiss, recognizer, workers>>

Filter(faces) ==
    /\ last' = Call("filter", None, faces, 0, TRUE, filter(faces), <<>>)
    /\ UNCHANGED <<StoreVars, LedgerVars, faiss, recognizer, workers>>

NextQuality ==
    \/ \E face \in DetectedFaces : Assess(face)
    \/ \E faces \in FaceLists : Filter(faces)

SpecQuality == Init /\ [][NextQuality]_vars

---------------------------------------------------------------------------
(* C21: assess on a face whose width or height is below min_face_size gives      *)
(* size_ok = false and is_acceptable = false, whatever blur, brightness and pose *)
(* are.                                                                          *)

C21_SmallFaceRejected ==
    (/\ last.op = "assess"
     /\ \/ (last.image.bbox[3] - last.image.bbox[1]) \div 10 < min_face_size
        \/ (last.image.bbox[4] - last.image.bbox[2]) \div 10 < min_face_size)
        => (~last.results.size_ok /\ ~last.results.is_acceptable)

\* C21 witness: a face a fraction of a pixel too narrow, good in every other
\* respect, was assessed
C21_Witness ==
    /\ last.op = "assess"
    /\ last.image.bbox = <<0, 0, 599, 600>>
    /\ last.results.blur_score >= blur_threshold
    /\ last.results.brightness_ok
    /\ last.results.pose_ok
    /\ ~last.results.is_acceptable

---------------------------------------------------------------------------
(* C22: filter returns exactly the faces that assess accepts, in their input     *)
(* order; the result is never longer than the input and is strictly shorter when *)
(* a face fails.                                                                 *)

\* the positions of the input that assess accepts, in increasing order
RECURSIVE AcceptedPositions(_, _)
AcceptedPositions(faces, i) ==
    IF i = 0 THEN <<>>
    ELSE IF assess(faces[i]).is_acceptable
         THEN Append(AcceptedPositions(faces, i - 1), i)
         ELSE AcceptedPositions(faces, i - 1)

C22_FilterKeepsAccepted ==
    last.op = "filter" =>
        LET faces == last.image
            pos   == AcceptedPositions(faces, Len(faces))
        IN /\ Len(last.results) = Len(pos)
           /\ \A k \in DOMAIN pos : last.results[k] = faces[pos[k]]
           /\ Len(last.results) <= Len(faces)
           /\ (\E i \in DOMAIN faces : ~assess(faces[i]).is_acceptable)
                 => Len(last.results) < Len(faces)

\* C22 witness: two different acceptable faces were given and both came back,
\* in their order
C22_Witness ==
    /\ last.op = "filter"
    /\ Len(last.image) = 2
    /\ Len(last.results) = 2
    /\ last.results[1] # last.results[2]
    /\ last.results = last.image

---------------------------------------------------------------------------
(* The FaceRecognizer on its own *)

RecognizerEnroll(student_id, face_image) ==
    LET out == recognizer_enroll(recognizer, student_id, face_image)
    IN /\ recognizer' = out.r
       /\ last' = Call("recognizer_enroll", student_id, face_image, 0, out.ret,
                       <<>>, recognizer_enrolled_count(recognizer))
       /\ UNCHANGED <<StoreVars, LedgerVars, faiss, workers>>

RecognizerClear ==
    /\ recognizer' = clear_enrollments(recognizer)
    /\ last' = Call("clear_enrollments", None, None, 0, None,
                    <<>>, recognizer_enrolled_count(recognizer))
    /\ UNCHANGED <<StoreVars, LedgerVars, faiss, workers>>

RecognizerRecognize(face_image) ==
    /\ last' = Call("recognizer_recognize", None, face_image, 0, None,
                    recognizer_recognize(recognizer, face_image),
                    recognizer_enrolled_count(recognizer))
    /\ UNCHANGED <<StoreVars, LedgerVars, faiss, recognizer, workers>>

NextRecognizer ==
    \/ \E id \in StudentIds, image \in Images : RecognizerEnroll(id, image)
    \/ RecognizerClear
    \/ \E image \in Images : RecognizerRecognize(image)

SpecRecognizer == Init /\ [][NextRecognizer]_vars

---------------------------------------------------------------------------
(* C23: get_enrolled_count is 0 for a new recognizer and after clear_enrollments, *)
(* 1 after one successful enroll on a new recognizer, and always the number of    *)
(* distinct student ids successfully enrolled since the last clear; a failed      *)
(* enroll leaves it as it was.                                                    *)

C23_CountIsDistinctIds ==
    /\ Len(recognizer.enrolled_embeddings) = Cardinality(recognizer.since_clear)
    /\ last.op \in {"init", "clear_enrollments"} => Len(recognizer.enrolled_embeddings) = 0
    /\ (last.op = "recognizer_enroll" /\ last.ret /\ last.prev = 0)
          => Len(recognizer.enrolled_embeddings) = 1
    /\ (last.op = "recognizer_enroll" /\ ~last.ret)
          => Len(recognizer.enrolled_embeddings) = last.prev

\* C23 witness: two students are enrolled and one of them has just been enrolled
\* again
C23_Witness ==
    /\ last.op = "recognizer_enroll" /\ last.ret
    /\ last.prev = 2
    /\ Len(recognizer.enrolled_embeddings) = 2
    /\ \E i \in DOMAIN recognizer.enrolled_embeddings :
          /\ recognizer.enrolled_embeddings[i].name = last.name
          /\ recognizer.enrolled_embeddings[i].embs = extract("B")
    /\ last.image = "B"

---------------------------------------------------------------------------
(* C24: in every state of the store reached through enroll, delete, clear and    *)
(* the load of a persisted file, each person's list is in descending order of    *)
(* quality_score * det_score.                                                    *)

C24_ListsSortedDescending ==
    \A p \in DOMAIN embeddings_db :
        \A j, k \in DOMAIN embeddings_db[p].embs :
            j < k => embeddings_db[p].embs[j].quality_score * embeddings_db[p].embs[j].det_score
                        >= embeddings_db[p].embs[k].quality_score * embeddings_db[p].embs[k].det_score

\* C24 witness: the record just enrolled has a higher product than one that was
\* already there, and stands before it
C24_Witness ==
    /\ last.op = "enroll" /\ last.ret
    /\ Len(Get(embeddings_db, last.name)) = 2
    /\ Get(embeddings_db, last.name)[1] = embedding_data(last.image)
    /\ Get(embeddings_db, last.name)[1].quality_score * Get(embeddings_db, last.name)[1].det_score
          > Get(embeddings_db, last.name)[2].quality_score * Get(embeddings_db, last.name)[2].det_score

---------------------------------------------------------------------------
(* C25: a successful enroll offers one new record to the person's list, the      *)
(* candidate of the image with the highest quality_score * det_score among those *)
(* with quality_score at least min_embedding_quality; no other face of the image *)
(* is stored and the lists of the other persons are unchanged.                   *)

\* the candidates of the image that pass the minimum quality
Candidates(image) ==
    {f \in Range(detect_and_extract(image)) : f.quality_score >= min_embedding_quality}

TopCandidate(image) ==
    CHOOSE f \in Candidates(image) :
        \A g \in Candidates(image) :
            g.quality_score * g.det_score <= f.quality_score * f.det_score

C25_OneBestRecordOffered ==
    [][\A n \in Names, image \in Images :
          (last'.op = "enroll" /\ last'.ret /\ last'.name = n /\ last'.image = image) =>
              LET before  == BagOfSeq(Get(embeddings_db, n))
                  after   == BagOfSeq(Get(embeddings_db', n))
                  offered == before (+) SetToBag({TopCandidate(image)})
              IN /\ after \sqsubseteq offered
                 /\ BagCardinality(after)
                       = Min(BagCardinality(offered), max_embeddings_per_person)
                 /\ Keys(embeddings_db') = Keys(embeddings_db) \cup {n}
                 /\ \A m \in Keys(embeddings_db) \ {n} :
                        Get(embeddings_db', m) = Get(embeddings_db, m)]_vars

\* C25 witness: an image with three faces, one of them below the minimum quality,
\* was enrolled for a person who had a record, next to another person; the face
\* with the highest product is in the list and the other two are not
C25_Witness ==
    /\ last.op = "enroll" /\ last.ret /\ last.image = "B"
    /\ Len(embeddings_db) = 2
    /\ Len(Get(embeddings_db, last.name)) = 2
    /\ TopCandidate("B") \in Range(Get(embeddings_db, last.name))
    /\ \A f \in Range(detect_and_extract("B")) \ {TopCandidate("B")} :
           f \notin Range(Get(embeddings_db, last.name))

---------------------------------------------------------------------------
(* Two workers in log_attendance with nothing serializing them *)

InitRace ==
    /\ embeddings_file = NoFile
    /\ attendance_file \in InitAttendanceFiles
    /\ today = 1
    /\ daily_attendance = load_today_attendance(attendance_file, today)
    /\ embeddings_db = load_embeddings(embeddings_file)
    /\ enrolled = [n \in Names |-> EmptyBag]
    /\ faiss = FaissStart(NoIndexFile, NoMetadataFile, <<>>)
    /\ recognizer = RecognizerNew
    /\ \E shared \in BOOLEAN : workers = WorkersStart(shared, attendance_file, today)
    /\ last = Call("init", None, None, 0, TRUE, <<>>, <<>>)

\* lines 351-357: create today's set when missing, return False for a name in it
WorkerCheck(w, name) ==
    LET k  == SetOf(workers, w)
        da == workers.daily_attendance[k]
    IN /\ workers.pc[w] = "idle"
       /\ IF AlreadyRecorded(da, today, name)
          THEN /\ workers' = [workers EXCEPT !.daily_attendance[k] = WithToday(da, today)]
               /\ last' = Call("log", name, None, 0, FALSE, <<>>, w)
          ELSE /\ workers' = [workers EXCEPT !.daily_attendance[k] = WithToday(da, today),
                                             !.pc[w] = "checked",
                                             !.name[w] = name]
               /\ last' = Call("check", name, None, 0, FALSE, <<>>, w)
       /\ UNCHANGED <<StoreVars, LedgerVars, faiss, recognizer>>

\* lines 359-373
WorkerAppend(w) ==
    LET k   == SetOf(workers, w)
        out == log_append(workers.daily_attendance[k], attendance_file, today,
                          workers.name[w])
    IN /\ workers.pc[w] = "checked"
       /\ attendance_file' = out.file
       /\ workers' = [workers EXCEPT
                         !.daily_attendance[k] = out.da,
                         !.pc[w] = "idle",
                         !.name[w] = None,
                         !.returned_true =
                             IF out.ret
                             THEN Append(@, [worker |-> w, name |-> workers.name[w],
                                             date |-> today])
                             ELSE @]
       /\ last' = Call("log", workers.name[w], None, 0, out.ret, <<>>, w)
       /\ UNCHANGED <<StoreVars, daily_attendance, today, faiss, recognizer>>

NextRace ==
    \/ \E w \in Workers, name \in Names : WorkerCheck(w, name)
    \/ \E w \in Workers : WorkerAppend(w)

SpecRace == InitRace /\ [][NextRace]_vars

---------------------------------------------------------------------------
(* C26: with nothing serializing them, two log_attendance calls for one name on  *)
(* one day that both pass the membership test before either appends, or that run *)
(* in workers holding a set each, both return true and leave two ledger rows for *)
(* that name and date: a call that has passed the test appends its row and       *)
(* returns true whatever was appended since.                                     *)

RowsFor(name, d) ==
    {i \in 2..Len(attendance_file) :
        attendance_file[i].Name = name /\ attendance_file[i].Date = d}

TrueReturnsFor(name, d) ==
    {i \in DOMAIN workers.returned_true :
        workers.returned_true[i].name = name /\ workers.returned_true[i].date = d}

C26_EveryTrueReturnLeavesARow ==
    \A n \in Names :
        Cardinality(TrueReturnsFor(n, today)) <= Cardinality(RowsFor(n, today))

C26_PassedTestAppends ==
    \A w \in Workers :
        (workers.pc[w] = "checked" /\ workers'.pc[w] = "idle")
            => /\ last'.ret
               /\ attendance_file' = Append(attendance_file, Row(today, workers.name[w]))

C26_UnserializedCallsBothLog ==
    []C26_EveryTrueReturnLeavesARow /\ [][C26_PassedTestAppends]_vars

\* C26 witness: two threads on one set both returned true for one name, and the
\* ledger has two rows for it today
C26_Witness ==
    \E n \in Names :
        /\ workers.shared
        /\ Cardinality(TrueReturnsFor(n, today)) = 2
        /\ Cardinality(RowsFor(n, today)) = 2
        /\ \A w \in Workers : workers.pc[w] = "idle"

\* the same for two processes with a set each
C26_TwoProcesses ==
    \E n \in Names :
        /\ ~workers.shared
        /\ Cardinality(TrueReturnsFor(n, today)) = 2
        /\ Cardinality(RowsFor(n, today)) = 2

---------------------------------------------------------------------------
(* C27: for a positive threshold the adjusted threshold threshold * (0.8 + 0.2 * *)
(* quality) rises with the quality of the query face: of two faces of one        *)
(* recognize call the one of lower quality has to reach a strictly lower         *)
(* adjusted threshold, and each face is matched exactly when its confidence      *)
(* reaches its own adjusted threshold.                                           *)

QueryQuality(i) == detect_and_extract(last.image)[i].quality_score

ReachesAdjusted(i) ==
    last.results[i].confidence * 50
        >= 3 * NormSq * quality_adjusted_threshold(last.threshold, QueryQuality(i))

C27_LowerQualityLowerThreshold ==
    (last.op = "recognize" /\ last.threshold > 0)
        => \A i, j \in DOMAIN last.results :
              /\ last.results[i].matched <=> ReachesAdjusted(i)
              /\ QueryQuality(i) < QueryQuality(j)
                    => quality_adjusted_threshold(last.threshold, QueryQuality(i))
                         < quality_adjusted_threshold(last.threshold, QueryQuality(j))

\* C27 witness: one call with a positive threshold on an image with faces of
\* different quality, the face of lower quality matched and the other not
C27_Witness ==
    /\ last.op = "recognize"
    /\ last.threshold > 0
    /\ \E i, j \in DOMAIN last.results :
          /\ QueryQuality(i) < QueryQuality(j)
          /\ last.results[i].matched
          /\ ~last.results[j].matched

\* C27 as stated: the face of lower quality has to reach an adjusted threshold
\* at least as high as the face of higher quality
C27_LowerQualityHigherThreshold ==
    (last.op = "recognize" /\ last.threshold > 0)
        => \A i, j \in DOMAIN last.results :
              QueryQuality(i) < QueryQuality(j)
                 => quality_adjusted_threshold(last.threshold, QueryQuality(i))
                      >= quality_adjusted_threshold(last.threshold, QueryQuality(j))

---------------------------------------------------------------------------
(* C28: in every result of recognize, for any store and any threshold,           *)
(* matched = true implies that name is a currently enrolled person, and matched  *)
(* = false implies that name is none.                                            *)

C28_MatchedNamesEnrolled ==
    last.op = "recognize" =>
        \A i \in DOMAIN last.results :
            /\ last.results[i].matched => Has(embeddings_db, last.results[i].name)
            /\ ~last.results[i].matched => last.results[i].name = None

\* the same for positive thresholds only
C28_PositiveThreshold ==
    (last.op = "recognize" /\ last.threshold > 0) =>
        \A i \in DOMAIN last.results :
            /\ last.results[i].matched => Has(embeddings_db, last.results[i].name)
            /\ ~last.results[i].matched => last.results[i].name = None

---------------------------------------------------------------------------
(* C29: in one process whose calls run one at a time, after startup and after    *)
(* any sequence of log_attendance calls, returning true or false, the in-memory  *)
(* set for today holds exactly the names that have a ledger row dated today.     *)

C29_TodaySetIsLedgerNames ==
    \A n \in Names :
        n \in get_today_attendance(daily_attendance, today)
            <=> \E i \in LedgerRows :
                    attendance_file[i].Date = today /\ attendance_file[i].Name = n

\* C29 witness: on the second day of a process both names were logged and a
\* repeated call returned false
C29_Witness ==
    /\ today = 2
    /\ last.op = "log"
    /\ ~last.ret
    /\ get_today_attendance(daily_attendance, today) = Names
    /\ DOMAIN daily_attendance = {1, 2}

---------------------------------------------------------------------------
(* The ledger alone, with appends that can fail *)

NextLedgerIO ==
    \/ \E name \in Names, fault \in Faults : LogAttendanceIO(name, fault)
    \/ Tick
    \/ RestartIO

SpecLedgerIO == InitIO /\ [][NextLedgerIO]_vars

---------------------------------------------------------------------------
(* C30: when the append to the ledger fails, log_attendance returns false and    *)
(* does not add the name to today's set, so the                                  *)
(* next log_attendance for that name on that day whose append succeeds returns   *)
(* true, writes the row and adds the name.                                       *)

C30_FailedAppendCanBeRetried ==
    last.op = "log" =>
        /\ last.write_error
              => /\ last.ret = FALSE
                 /\ last.name \notin get_today_attendance(daily_attendance, today)
        /\ (last.after_error /\ ~last.write_error)
              => /\ last.ret = TRUE
                 /\ last.name \in get_today_attendance(daily_attendance, today)
                 /\ HasRow(attendance_file, today, last.name)

\* C30 witness: a call whose append succeeded, right after a call for the same
\* name whose append failed, returned true
C30_Witness ==
    /\ last.op = "log"
    /\ last.after_error
    /\ ~last.write_error
    /\ last.ret = TRUE
    /\ Len(attendance_file) = 2

=============================================================================
